---- MODULE Spec2Model ----
(***************************************************************************)
(* Model of src/main.rs: a two-thread program that scrolls a text over an  *)
(* 8x8 LED matrix.  The main thread (Ticker) sleeps and sends unit ticks   *)
(* over an mpsc channel; the spawned thread (Animator) builds an LedMatrix *)
(* from 16 GPIO pins and then loops: try_recv, wrapping_add, translate and *)
(* draw.  LedMatrix::draw_iter flashes one LED per pixel.                  *)
(*                                                                         *)
(* Two groups of specifications:                                           *)
(*   Spec / FairSpec  the whole program (both threads, construction,       *)
(*                    channel, offset, one draw call per iteration);       *)
(*   SpecDraw         LedMatrix::draw_iter alone, one action per line      *)
(*                    write or dwell, fed arbitrary pixels.                *)
(***************************************************************************)
EXTENDS Integers, Sequences, FiniteSets, TLC

(***************************************************************************)
(* Bounds of the model (not program constants).                            *)
(***************************************************************************)
\* ticks the Ticker may send in one run (the loop at main.rs:66 is endless)
MaxTicks == 260
\* ticks the Ticker may send in one run of FairSpec
MaxFairTicks == 12
\* ticks that may sit in the (unbounded) channel at once
MaxPending == 2
\* GPIO pins that may be unavailable at startup
MaxFailing == 1
\* pixels one draw_iter call may be handed in SpecDraw
MaxPixels == 2
\* draw_iter calls in one SpecDraw run
MaxCalls == 2

(***************************************************************************)
(* Program constants.                                                      *)
(***************************************************************************)
\* offset_x is a u8 (main.rs:46)
U8Mod == 256
\* Size::new(8, 8) (main.rs:96)
MatrixSize == 8
\* FONT_5X8: glyph cell 5 wide, 8 high (main.rs:48)
FontWidth == 5
FontHeight == 8
\* "I bet you can't do this!" has 24 characters (main.rs:50)
TextLen == 24
\* the text's anchor point (0, 7) (main.rs:50)
AnchorX == 0
AnchorY == 7

\* row pin numbers ROW_1..ROW_8 and column pin numbers COL_1..COL_8
RowPins == <<8, 13, 7, 11, 0, 6, 1, 4>>
ColPins == <<16, 2, 3, 9, 5, 10, 14, 15>>

\* the order in which LedMatrix::new acquires its 16 pins: rows, then columns
NewOrder == RowPins \o ColPins
NumLines == Len(NewOrder)
AllPins == {NewOrder[i] : i \in 1..NumLines}

Lines == 1..MatrixSize

Min(a, b) == IF a < b THEN a ELSE b

(***************************************************************************)
(* Levels of an output pin.  "Unclaimed" is a pin no OutputPin holds.      *)
(***************************************************************************)
Not(level) == IF level = "High" THEN "Low" ELSE "High"

\* BinaryColor -> Level (main.rs:113-116)
Level(c) == IF c = "On" THEN "High" ELSE "Low"

(***************************************************************************)
(* The tick channel and the offset.                                        *)
(***************************************************************************)
\* u8::wrapping_add
WrappingAdd(a, b) == (a + b) % U8Mod

\* Receiver::try_recv on the queue q: at most one message leaves the queue
TryRecvDrainAll(q) ==
    IF q = << >> THEN [ok |-> FALSE, val |-> 0, rest |-> q]
    ELSE [ok |-> TRUE, val |-> q[Len(q)], rest |-> << >>]
TryRecvTwo(q) ==
    IF q = << >> THEN [ok |-> FALSE, val |-> 0, rest |-> q]
    ELSE IF Len(q) = 1 THEN [ok |-> TRUE, val |-> Head(q), rest |-> Tail(q)]
    ELSE [ok |-> TRUE, val |-> q[2], rest |-> Tail(Tail(q))]
TryRecvNever(q) == [ok |-> FALSE, val |-> 0, rest |-> q]
TryRecvPeek(q) ==
    IF q = << >> THEN [ok |-> FALSE, val |-> 0, rest |-> q]
    ELSE [ok |-> TRUE, val |-> Head(q), rest |-> q]
TryRecv(q) ==
    IF q = << >> THEN [ok |-> FALSE, val |-> 0, rest |-> q]
    ELSE [ok |-> TRUE, val |-> Head(q), rest |-> Tail(q)]

\* if rx.try_recv().is_ok() { offset_x = offset_x.wrapping_add(1); }
NextOffsetAlways(o, ok) == WrappingAdd(o, 1)
NextOffset(o, ok) == IF ok THEN WrappingAdd(o, 1) ELSE o

\* text.bounding_box().size.width: TextLen glyph cells, no extra spacing
TextWidth == TextLen * FontWidth

\* offset_x as u32 % text.bounding_box().size.width
EffectiveOffset(o) == o % TextWidth

(***************************************************************************)
(* The text run.  The glyph bitmaps belong to the font (embedded_graphics' *)
(* FONT_5X8), which is not part of this source; GlyphInk stands in for     *)
(* them with one lit pixel in every glyph column.  The style has a         *)
(* foreground colour only, so every pixel of the run is On.                *)
(***************************************************************************)
GlyphInk(k, gx, gy) == gy = (k + 2 * gx) % FontHeight

\* pixel number i (0-based) of the raster scan: glyph by glyph, row by row
CellAt(i) ==
    LET per == FontWidth * FontHeight
    IN  [k |-> i \div per, gy |-> (i % per) \div FontWidth, gx |-> i % FontWidth]

\* the lit cells of the run, in raster order
InkCells ==
    SelectSeq([i \in 1..(TextLen * FontWidth * FontHeight) |-> CellAt(i - 1)],
              LAMBDA c : GlyphInk(c.k, c.gx, c.gy))

\* text.translate(Point::new(-(offset_x as i32), 0)): the pixels handed to draw
Frame(eff) ==
    [i \in 1..Len(InkCells) |->
        [x |-> AnchorX + InkCells[i].k * FontWidth + InkCells[i].gx - eff,
         y |-> AnchorY - (FontHeight - 1) + InkCells[i].gy,
         c |-> "On"]]

(***************************************************************************)
(* LedMatrix::draw_iter, one pixel.                                        *)
(***************************************************************************)
\* self.bounding_box().contains(p) with size() = 8x8 at the origin
ContainsInclusive(p) ==
    /\ 0 <= p.x /\ p.x <= MatrixSize
    /\ 0 <= p.y /\ p.y <= MatrixSize
Contains(p) ==
    /\ 0 <= p.x /\ p.x < MatrixSize
    /\ 0 <= p.y /\ p.y < MatrixSize

\* the match arms 0 => col_1 ... 7 => col_8 (0 stands for the unreachable!() arm)
ColOfShort(x) == IF x \in 0..6 THEN x + 1 ELSE 0
ColOfMirrored(x) == IF x \in 0..7 THEN MatrixSize - x ELSE 0
ColOf(x) == IF x \in 0..7 THEN x + 1 ELSE 0
\* the match arms 0 => row_1 ... 7 => row_8
RowOf(y) == IF y \in 0..7 THEN y + 1 ELSE 0

\* ls = [rows, cols, panicked]: the 16 line levels, and whether an
\* unreachable!() arm was hit
WriteCol(ls, x, level) ==
    IF ColOf(x) = 0 THEN [ls EXCEPT !.panicked = TRUE]
    ELSE [ls EXCEPT !.cols[ColOf(x)] = level]
WriteRow(ls, y, level) ==
    IF RowOf(y) = 0 THEN [ls EXCEPT !.panicked = TRUE]
    ELSE [ls EXCEPT !.rows[RowOf(y)] = level]

\* "Turn on the LED": column gets !level, row gets level
TurnOnCol(ls, p) == WriteCol(ls, p.x, Not(Level(p.c)))
TurnOnRow(ls, p) == WriteRow(ls, p.y, Level(p.c))
\* "Turn off the LED": column gets level, row gets !level
TurnOffColStuck(ls, p) == WriteCol(ls, p.x, Not(Level(p.c)))
TurnOffCol(ls, p) == WriteCol(ls, p.x, Level(p.c))
TurnOffRowStuck(ls, p) == WriteRow(ls, p.y, Level(p.c))
TurnOffRow(ls, p) == WriteRow(ls, p.y, Not(Level(p.c)))

\* the body of the for loop for one pixel, start to end
DrawPixel(ls, p) ==
    IF ls.panicked \/ ~Contains(p) THEN ls
    ELSE LET a == TurnOnCol(ls, p)
             b == IF a.panicked THEN a ELSE TurnOnRow(a, p)
             c == IF b.panicked THEN b ELSE TurnOffCol(b, p)
         IN  IF c.panicked THEN c ELSE TurnOffRow(c, p)

\* the for loop over px[lo..hi], in order.  The range is halved, and the state
\* after the left half is bound as a value, only to keep the evaluation shallow:
\* the pixels are still processed left to right, and a panic ends the loop.
RECURSIVE DrawRange(_, _, _, _)
DrawRange(ls, px, lo, hi) ==
    IF lo > hi THEN ls
    ELSE IF lo = hi THEN DrawPixel(ls, px[lo])
    ELSE CHOOSE out \in
            {IF b.left.panicked THEN b.left
             ELSE DrawRange(b.left, px, b.next, hi) :
                 b \in {[left |-> DrawRange(ls, px, lo, (lo + hi) \div 2),
                         next |-> ((lo + hi) \div 2) + 1]}} : TRUE

\* the whole draw_iter call on the pixel sequence px
DrawIter(ls, px) == DrawRange(ls, px, 1, Len(px))

(***************************************************************************)
(* LedMatrix::new, one pin at a time.                                      *)
(***************************************************************************)
\* gpio.get(pin)?
GpioGetLenient(i, unavail) == IF i < NumLines /\ NewOrder[i] \in unavail THEN "Err" ELSE "Ok"
GpioGet(i, unavail) == IF NewOrder[i] \in unavail THEN "Err" ELSE "Ok"

Unclaimed == [i \in Lines |-> "Unclaimed"]
RestRows == [i \in Lines |-> "Low"]
RestCols == [i \in Lines |-> "High"]

\* into_output_low() for rows (pins 1..8 of NewOrder), into_output_high() for columns
Claim(ls, i) ==
    IF i <= MatrixSize THEN [ls EXCEPT !.rows[i] = "Low"]
    ELSE [ls EXCEPT !.cols[i - MatrixSize] = "High"]

VARIABLES
    \* ---- the program ----
    unavail,        \* pins gpio.get fails on
    gpioOk,         \* whether Gpio::new() succeeds
    pcA,            \* Animator: "gpio", "new", "recv", "draw", "panicked"
    pcT,            \* Ticker: "sleep", "send", "exited" (main returned: process gone)
    acquired,       \* pins LedMatrix::new has acquired so far
    display,        \* "none", "some" (LedMatrix::new returned Ok), "failed" (Err)
    rxAlive,        \* the Receiver has not been dropped
    chan,           \* the channel's queue; each () carries its send number
    offset_x,       \* the u8 offset
    rows, cols,     \* levels of the 8 row and 8 column lines
    submitted,      \* pixel sequence handed to the last draw call
    \* ---- history (not program state) ----
    sent,           \* successful sends
    sendFailures,   \* failed sends
    received,       \* messages removed from the channel
    increments,     \* executions of offset_x.wrapping_add(1)
    lastTick,       \* send number of the last message received
    pendingBefore,  \* messages pending when the last iteration began
    offsetBefore,   \* offset_x when the last iteration began
    drained,        \* messages removed by the last iteration
    prevSubmitted,  \* pixel sequence handed to the draw call before the last
    frames,         \* draw calls completed, counted up to 2
    offHist,        \* offset_x at start and after each tick, last TextWidth+1 values
    \* ---- draw_iter alone (SpecDraw) ----
    pcD,            \* "idle", "fetch", "colOn", "rowOn", "dwell1", "colOff", "rowOff", "dwell2", "panicked"
    cur,            \* the pixel being processed, or processed last
    pre,            \* line levels when cur was fetched
    fetched,        \* pixels taken from the iterator in this call
    dwells,         \* sleeps performed in this call
    dwellsPre,      \* dwells when cur was fetched
    calls,          \* draw_iter calls started
    inDrawn,        \* pixels of this call that passed the bounds check
    onDrawn         \* those of them whose colour is On

progVars == <<unavail, gpioOk, pcA, pcT, acquired, display, rxAlive, chan, offset_x,
              submitted, sent, sendFailures, received, increments,
              lastTick, pendingBefore, offsetBefore, drained, prevSubmitted, frames,
              offHist>>
drawVars == <<pcD, cur, pre, fetched, dwells, dwellsPre, calls, inDrawn, onDrawn>>
vars == <<progVars, rows, cols, drawVars>>

NoPixel == [x |-> 0, y |-> 0, c |-> "None"]

(***************************************************************************)
(* The whole program.                                                      *)
(***************************************************************************)
Init ==
    /\ unavail \in {S \in SUBSET AllPins : Cardinality(S) <= MaxFailing}
    /\ gpioOk \in BOOLEAN
    /\ pcA = "gpio"
    /\ pcT = "sleep"
    /\ acquired = 0
    /\ display = "none"
    /\ rxAlive = TRUE
    /\ chan = << >>
    /\ offset_x = 0
    /\ rows = Unclaimed
    /\ cols = Unclaimed
    /\ submitted = << >>
    /\ sent = 0
    /\ sendFailures = 0
    /\ received = 0
    /\ increments = 0
    /\ lastTick = 0
    /\ pendingBefore = 0
    /\ offsetBefore = 0
    /\ drained = 0
    /\ prevSubmitted = << >>
    /\ frames = 0
    /\ offHist = <<0>>
    /\ pcD = "idle"
    /\ cur = NoPixel
    /\ pre = [rows |-> Unclaimed, cols |-> Unclaimed]
    /\ fetched = 0
    /\ dwells = 0
    /\ dwellsPre = 0
    /\ calls = 0
    /\ inDrawn = 0
    /\ onDrawn = 0

\* main has not returned: the process, and with it the spawned thread, lives
Running == pcT # "exited"

histVars == <<sent, sendFailures, received, increments, lastTick, pendingBefore,
              offsetBefore, drained, prevSubmitted, frames, offHist>>

\* let gpio = Gpio::new().unwrap();
A_GpioNew ==
    /\ Running /\ pcA = "gpio"
    /\ pcA' = IF gpioOk THEN "new" ELSE "panicked"
    /\ rxAlive' = gpioOk
    /\ UNCHANGED <<unavail, gpioOk, pcT, acquired, display, chan, offset_x, rows, cols,
                   submitted, histVars, drawVars>>

\* one `gpio.get(pin)?.into_output_*()` of LedMatrix::new, then Ok(Self {..}) and
\* the caller's unwrap(); an Err drops the pins acquired so far and panics
A_Acquire ==
    /\ Running /\ pcA = "new"
    /\ LET i == acquired + 1
           ls == Claim([rows |-> rows, cols |-> cols], i)
       IN  IF GpioGet(i, unavail) = "Err"
           THEN /\ display' = "failed"
                /\ pcA' = "panicked"
                /\ rxAlive' = FALSE
                /\ rows' = Unclaimed
                /\ cols' = Unclaimed
                /\ UNCHANGED acquired
           ELSE /\ acquired' = i
                /\ rows' = ls.rows
                /\ cols' = ls.cols
                /\ display' = IF i = NumLines THEN "some" ELSE display
                /\ pcA' = IF i = NumLines THEN "recv" ELSE "new"
                /\ UNCHANGED rxAlive
    /\ UNCHANGED <<unavail, gpioOk, pcT, chan, offset_x, submitted, histVars, drawVars>>

\* whether try_recv returns on the queue q: it never waits, it returns
\* Err(TryRecvError::Empty) at once when nothing is queued
RecvReadyBlocking(q) == q # << >>
RecvReady(q) == TRUE

\* if rx.try_recv().is_ok() { offset_x = offset_x.wrapping_add(1); }
A_Recv ==
    /\ Running /\ pcA = "recv"
    /\ RecvReady(chan)
    /\ LET r == TryRecv(chan)
           n == Len(chan) - Len(r.rest)
           o == NextOffset(offset_x, r.ok)
       IN  /\ chan' = r.rest
           /\ offset_x' = o
           /\ received' = received + n
           /\ increments' = increments + (IF o # offset_x THEN 1 ELSE 0)
           /\ lastTick' = IF r.ok THEN r.val ELSE lastTick
           /\ pendingBefore' = Len(chan)
           /\ offsetBefore' = offset_x
           /\ drained' = n
           /\ offHist' = IF o # offset_x
                          THEN LET h == Append(offHist, o)
                               IN  IF Len(h) > TextWidth + 1 THEN Tail(h) ELSE h
                          ELSE offHist
    /\ pcA' = "draw"
    /\ UNCHANGED <<unavail, gpioOk, pcT, acquired, display, rxAlive, rows, cols, submitted,
                   sent, sendFailures, prevSubmitted, frames, drawVars>>

\* let offset_x = offset_x as u32 % width; text.translate(..).draw(&mut display).unwrap();
A_Draw ==
    /\ Running /\ pcA = "draw"
    /\ \E px \in {Frame(EffectiveOffset(offset_x))} :
       \E res \in {DrawIter([rows |-> rows, cols |-> cols, panicked |-> FALSE], px)} :
           /\ submitted' = px
           /\ prevSubmitted' = submitted
           /\ rows' = res.rows
           /\ cols' = res.cols
           /\ pcA' = IF res.panicked THEN "panicked" ELSE "recv"
           /\ rxAlive' = ~res.panicked
    /\ frames' = Min(frames + 1, 2)
    /\ UNCHANGED <<unavail, gpioOk, pcT, acquired, display, chan, offset_x, sent,
                   sendFailures, received, increments, lastTick, pendingBefore,
                   offsetBefore, drained, offHist, drawVars>>

\* thread::sleep(Duration::from_millis(1000 / 5));
T_Sleep ==
    /\ pcT = "sleep"
    /\ pcT' = "send"
    /\ UNCHANGED <<unavail, gpioOk, pcA, acquired, display, rxAlive, chan, offset_x, rows,
                   cols, submitted, histVars, drawVars>>

\* Sender::send: Err exactly when the Receiver has been dropped
SendResultIgnored(alive) == "Ok"
SendResult(alive) == IF alive THEN "Ok" ELSE "Err"

\* where `tx.send(())?` leaves main after an Err: main returns it
AfterSendErrRetry == "send"
AfterSendErr == "exited"

\* tx.send(())?  -- the send succeeds
T_SendOk(cap) ==
    /\ pcT = "send" /\ SendResult(rxAlive) = "Ok"
    /\ sent < cap /\ Len(chan) < MaxPending
    /\ chan' = Append(chan, sent + 1)
    /\ sent' = sent + 1
    /\ pcT' = "sleep"
    /\ UNCHANGED <<unavail, gpioOk, pcA, acquired, display, rxAlive, offset_x, rows, cols,
                   submitted, sendFailures, received, increments, lastTick, pendingBefore,
                   offsetBefore, drained, prevSubmitted, frames, offHist, drawVars>>

\* tx.send(())?  -- the send fails and main returns the error
T_SendErr ==
    /\ pcT = "send" /\ SendResult(rxAlive) = "Err"
    /\ sendFailures' = sendFailures + 1
    /\ pcT' = AfterSendErr
    /\ UNCHANGED <<unavail, gpioOk, pcA, acquired, display, rxAlive, chan, offset_x, rows,
                   cols, submitted, sent, received, increments, lastTick, pendingBefore,
                   offsetBefore, drained, prevSubmitted, frames, offHist, drawVars>>

Animator == A_GpioNew \/ A_Acquire \/ A_Recv \/ A_Draw
Ticker(cap) == T_Sleep \/ T_SendOk(cap) \/ T_SendErr

Next == Animator \/ Ticker(MaxTicks)

Spec == Init /\ [][Next]_vars

\* The same program with a shorter run, and both threads scheduled by the
\* operating system: neither is starved.
FairNext == Animator \/ Ticker(MaxFairTicks)

FairSpec ==
    Init /\ [][FairNext]_vars /\ WF_vars(Animator) /\ WF_vars(Ticker(MaxFairTicks))

(***************************************************************************)
(* LedMatrix::draw_iter alone: a constructed matrix, driven by a caller    *)
(* that hands it arbitrary pixel sequences.  One action per line write and *)
(* per dwell, so that every intermediate line state is a state.            *)
(***************************************************************************)
\* coordinates the caller may pass: outside on both sides, both edges, inside
Coords == {-1, 0, 3, 7, 8}
PixelInputs == [x : Coords, y : Coords, c : {"On", "Off"}]

InitDraw ==
    /\ unavail = {}
    /\ gpioOk = TRUE
    /\ pcA = "draw"
    /\ pcT = "sleep"
    /\ acquired = NumLines
    /\ display = "some"
    /\ rxAlive = TRUE
    /\ chan = << >>
    /\ offset_x = 0
    /\ rows = RestRows
    /\ cols = RestCols
    /\ submitted = << >>
    /\ sent = 0
    /\ sendFailures = 0
    /\ received = 0
    /\ increments = 0
    /\ lastTick = 0
    /\ pendingBefore = 0
    /\ offsetBefore = 0
    /\ drained = 0
    /\ prevSubmitted = << >>
    /\ frames = 0
    /\ offHist = <<0>>
    /\ pcD = "idle"
    /\ cur = NoPixel
    /\ pre = [rows |-> RestRows, cols |-> RestCols]
    /\ fetched = 0
    /\ dwells = 0
    /\ dwellsPre = 0
    /\ calls = 0
    /\ inDrawn = 0
    /\ onDrawn = 0

CurLines == [rows |-> rows, cols |-> cols, panicked |-> FALSE]

\* draw_iter is entered
D_Call ==
    /\ pcD = "idle" /\ calls < MaxCalls
    /\ calls' = calls + 1
    /\ fetched' = 0
    /\ dwells' = 0
    /\ dwellsPre' = 0
    /\ inDrawn' = 0
    /\ onDrawn' = 0
    /\ cur' = NoPixel
    /\ pre' = [rows |-> rows, cols |-> cols]
    /\ pcD' = "fetch"
    /\ UNCHANGED <<progVars, rows, cols>>

\* for Pixel(p, c) in pixels { if self.bounding_box().contains(p) { .. } }
D_Fetch ==
    /\ pcD = "fetch" /\ fetched < MaxPixels
    /\ \E p \in PixelInputs :
          /\ cur' = p
          /\ pcD' = IF Contains(p) THEN "colOn" ELSE "fetch"
          /\ inDrawn' = inDrawn + (IF Contains(p) THEN 1 ELSE 0)
          /\ onDrawn' = onDrawn + (IF Contains(p) /\ p.c = "On" THEN 1 ELSE 0)
    /\ pre' = [rows |-> rows, cols |-> cols]
    /\ dwellsPre' = dwells
    /\ fetched' = fetched + 1
    /\ UNCHANGED <<progVars, rows, cols, dwells, calls>>

\* one of the four line writes of the loop body; an unreachable!() arm panics
LineWrite(from, to, ls) ==
    /\ pcD = from
    /\ rows' = ls.rows
    /\ cols' = ls.cols
    /\ pcD' = IF ls.panicked THEN "panicked" ELSE to
    /\ UNCHANGED <<progVars, cur, pre, fetched, dwells, dwellsPre, calls, inDrawn, onDrawn>>

\* std::thread::sleep(Duration::from_micros(5))
DwellSkipped(from, to) ==
    /\ pcD = from
    /\ pcD' = to
    /\ UNCHANGED <<progVars, rows, cols, cur, pre, fetched, dwells, dwellsPre, calls,
                   inDrawn, onDrawn>>
Dwell(from, to) ==
    /\ pcD = from
    /\ dwells' = dwells + 1
    /\ pcD' = to
    /\ UNCHANGED <<progVars, rows, cols, cur, pre, fetched, dwellsPre, calls,
                   inDrawn, onDrawn>>

D_ColOn == LineWrite("colOn", "rowOn", TurnOnCol(CurLines, cur))
D_RowOn == LineWrite("rowOn", "dwell1", TurnOnRow(CurLines, cur))
D_Dwell1 == Dwell("dwell1", "colOff")
D_ColOff == LineWrite("colOff", "rowOff", TurnOffCol(CurLines, cur))
D_RowOff == LineWrite("rowOff", "dwell2", TurnOffRow(CurLines, cur))
D_Dwell2 == Dwell("dwell2", "fetch")

\* the iterator is exhausted: Ok(())
D_Return ==
    /\ pcD = "fetch"
    /\ pcD' = "idle"
    /\ UNCHANGED <<progVars, rows, cols, cur, pre, fetched, dwells, dwellsPre, calls,
                   inDrawn, onDrawn>>

NextDraw ==
    \/ D_Call \/ D_Fetch \/ D_ColOn \/ D_RowOn \/ D_Dwell1
    \/ D_ColOff \/ D_RowOff \/ D_Dwell2 \/ D_Return

SpecDraw == InitDraw /\ [][NextDraw]_vars

(***************************************************************************)
(* Properties.                                                             *)
(***************************************************************************)
\* a coordinate inside the 8x8 window, as the claims state it
InBounds(p) == p.x \in 0..7 /\ p.y \in 0..7

\* the LEDs that are lit: row line high and column line low
Energized == {rc \in Lines \X Lines : rows[rc[1]] = "High" /\ cols[rc[2]] = "Low"}

CycleLaw ==
    Len(offHist) = TextWidth + 1 =>
        EffectiveOffset(offHist[TextWidth + 1]) = EffectiveOffset(offHist[1])

\* C3: the offset was incremented once per tick removed, no more ticks were
\* removed than sent, the ticks received are the first `received` ticks sent,
\* each once and in send order, and the rest are still queued in send order.
NoTickLostOrDuplicated ==
    /\ increments = received
    /\ received <= sent
    /\ lastTick = received
    /\ chan = [i \in 1..(sent - received) |-> received + i]

C3_Witness == received >= 2 /\ Len(chan) = 2 /\ pcA = "draw"

\* C4: at most one LED is energized in every line state draw_iter produces,
\* whatever pixels (coordinates and colours) it is given.
AtMostOneLed == Cardinality(Energized) <= 1

\* C5: an in-bounds On pixel drawn while its column is high and its row is low
\* lights exactly that LED for the first dwell and leaves all 16 lines as they
\* were before the pixel.
TransientFlash ==
    (/\ cur.c = "On" /\ InBounds(cur)
     /\ pre.cols[cur.x + 1] = "High" /\ pre.rows[cur.y + 1] = "Low")
    => /\ pcD # "panicked"
       /\ pcD = "dwell1" => cols[cur.x + 1] = "Low" /\ rows[cur.y + 1] = "High"
       /\ pcD \in {"dwell2", "fetch", "idle"} =>
              cols[cur.x + 1] = "High" /\ rows[cur.y + 1] = "Low"
       /\ pcD \in {"fetch", "idle"} =>
              /\ rows = pre.rows /\ cols = pre.cols
              /\ dwells = dwellsPre + 2

C5_Witness ==
    /\ pcD = "fetch" /\ cur.c = "On" /\ InBounds(cur)
    /\ pre.cols[cur.x + 1] = "High" /\ pre.rows[cur.y + 1] = "Low"
    /\ dwells = dwellsPre + 2
    /\ rows = pre.rows /\ cols = pre.cols

\* C6: a pixel with x or y outside [0,8), of either colour, changes no line,
\* causes no dwell and no panic: the loop simply goes on to the next pixel.
OutOfBoundsDropped ==
    (cur.c # "None" /\ ~InBounds(cur))
    => /\ pcD \in {"fetch", "idle"}
       /\ rows = pre.rows /\ cols = pre.cols
       /\ dwells = dwellsPre

C6_Witness ==
    /\ pcD = "fetch" /\ cur.c = "Off" /\ cur.x < 0 /\ cur.y = 8
    /\ fetched = 2 /\ dwells = 2

\* C7: LedMatrix::new returns a display only when every one of the 16 pins was
\* acquired; with any pin unavailable it returns an error and no display.
ConstructionAllOrNothing ==
    /\ display = "some" => unavail = {} /\ acquired = NumLines
    /\ (unavail # {} /\ gpioOk /\ pcA \notin {"gpio", "new"}) => display = "failed"

C7_Witness == display = "failed" /\ acquired = NumLines - 1 /\ Cardinality(unavail) = 1

\* C8: with a pin unavailable the render loop is never entered (no draw call,
\* no line driven to its active level) and the process eventually terminates.
AcquisitionFailureIsFatal ==
    /\ [](unavail # {} =>
            /\ pcA \notin {"recv", "draw"}
            /\ frames = 0 /\ submitted = << >>
            /\ \A i \in Lines : rows[i] # "High" /\ cols[i] # "Low")
    /\ (unavail # {} ~> pcT = "exited")

C8_Witness == unavail # {} /\ gpioOk /\ display = "failed" /\ pcT = "exited"

\* C9: once the Receiver is gone no send succeeds; the send that fails is the
\* only failed send and main returns on it; after that nothing runs.
SendFailureIsFatal ==
    /\ [][~rxAlive => (sent' = sent /\ chan' = chan)]_vars
    /\ [][sendFailures' # sendFailures =>
            (sendFailures = 0 /\ sendFailures' = 1 /\ pcT = "send" /\ pcT' = "exited")]_vars
    /\ [][pcT = "exited" => FALSE]_vars

C9_Witness == sendFailures = 1 /\ pcT = "exited" /\ ~rxAlive /\ sent >= 1

\* C10: an iteration that finds no tick pending leaves the offset as it was and
\* submits the same pixels as the iteration before it.
OffsetOnlyOnTicks ==
    /\ (pcA \in {"draw", "recv"} /\ pendingBefore = 0) => offset_x = offsetBefore
    /\ (pcA = "recv" /\ frames = 2 /\ pendingBefore = 0) => submitted = prevSubmitted

C10_Witness ==
    /\ pcA = "recv" /\ frames = 2 /\ pendingBefore = 0
    /\ offset_x > 0 /\ submitted = prevSubmitted

\* C11: draw_iter never fails: whatever pixels it is given, no unreachable!()
\* arm is hit (no panic), only pixels with 0 <= x <= 7 and 0 <= y <= 7 get past
\* the bounds check, and every call that has taken its pixels returns Ok(()).
DrawNeverFails ==
    /\ pcD # "panicked"
    /\ pcD \in {"colOn", "rowOn", "dwell1", "colOff", "rowOff", "dwell2"} =>
           /\ 0 <= cur.x /\ cur.x <= 7
           /\ 0 <= cur.y /\ cur.y <= 7
    /\ pcD = "fetch" => ENABLED D_Return

C11_Witness ==
    /\ pcD = "idle" /\ calls = 1 /\ fetched = 2
    /\ cur = [x |-> 7, y |-> 7, c |-> "On"] /\ dwells = 2

\* C12: an in-bounds pixel (x, y) writes column line x+1 and row line y+1 and
\* no other line: the other 14 lines keep their levels through the pixel's
\* whole sequence; (7,7) goes to column 8 and row 8; a pixel with x = 8 writes
\* nothing.
Addressing ==
    /\ (cur.c # "None" /\ InBounds(cur)) =>
          /\ \A i \in Lines : i # cur.x + 1 => cols[i] = pre.cols[i]
          /\ \A j \in Lines : j # cur.y + 1 => rows[j] = pre.rows[j]
          /\ pcD \in {"rowOn", "dwell1", "colOff"} =>
                 cols[cur.x + 1] = Not(Level(cur.c))
          /\ pcD \in {"dwell1", "colOff", "rowOff"} =>
                 rows[cur.y + 1] = Level(cur.c)
          /\ pcD \in {"rowOff", "dwell2"} => cols[cur.x + 1] = Level(cur.c)
          /\ pcD = "dwell2" => rows[cur.y + 1] = Not(Level(cur.c))
    /\ (cur.c # "None" /\ cur.x = 8) => (rows = pre.rows /\ cols = pre.cols)

C12_Witness ==
    /\ pcD = "dwell1" /\ cur.x = 7 /\ cur.y = 7 /\ cur.c = "On"
    /\ cols[8] = "Low" /\ rows[8] = "High"
    /\ \A i \in 1..7 : cols[i] = pre.cols[i] /\ rows[i] = pre.rows[i]

\* C13: each tick consumed moves the effective offset from e to (e + 1) mod
\* textWidth, whatever the number of ticks consumed so far, so the effective
\* offset is 0 after a tick exactly when it was textWidth - 1 before it.
OnePixelPerTick ==
    (pcA = "draw" /\ drained = 1) =>
        /\ EffectiveOffset(offset_x) = (EffectiveOffset(offsetBefore) + 1) % TextWidth
        /\ EffectiveOffset(offset_x) = 0 <=> EffectiveOffset(offsetBefore) = TextWidth - 1

\* C14: for an in-bounds pixel of either colour the first phase puts the column
\* at the inverse of the requested level and the row at the requested level,
\* and the second phase leaves the column high and the row low, so that the
\* addressed LED is not energized once the pixel is done.
DriveAndRestore ==
    (cur.c # "None" /\ InBounds(cur)) =>
        /\ pcD = "dwell1" =>
              /\ cols[cur.x + 1] = Not(Level(cur.c))
              /\ rows[cur.y + 1] = Level(cur.c)
        /\ pcD \in {"dwell2", "fetch", "idle"} =>
              /\ cols[cur.x + 1] = "High"
              /\ rows[cur.y + 1] = "Low"
              /\ <<cur.y + 1, cur.x + 1>> \notin Energized

\* C15: while both threads run (the display was built) and are scheduled
\* fairly, the k-th tick sent is eventually removed from the channel and
\* counted in an increment of the offset, for every k: no tick stays pending
\* for ever.
EveryTickConsumed ==
    \A k \in 1..MaxFairTicks :
        (unavail = {} /\ gpioOk /\ sent >= k) ~> (received >= k /\ increments >= k)

C15_Witness ==
    /\ display = "some" /\ sent = MaxFairTicks /\ received = MaxFairTicks
    /\ increments = MaxFairTicks /\ chan = << >>

\* C16: once LedMatrix::new has succeeded, at the start of every Animator loop
\* iteration (right after construction and after every draw call of the text,
\* whose pixels are all On) every row line is low and every column line is
\* high, so no LED is energized.
RestingLineState ==
    (display = "some" /\ pcA \in {"recv", "draw"}) =>
        /\ rows = RestRows
        /\ cols = RestCols
        /\ Energized = {}
        /\ \A i \in 1..Len(submitted) : submitted[i].c = "On"

C16_Witness ==
    /\ pcA = "recv" /\ frames = 2 /\ offset_x = 3
    /\ \E i \in 1..Len(submitted) : InBounds(submitted[i])
    /\ rows = RestRows /\ cols = RestCols


\* C17 as stated: when a draw call has finished a pixel (or returned), the
\* dwell periods it has performed number twice the On pixels it has drawn.
DwellsCountOnPixels ==
    pcD \in {"fetch", "idle"} => dwells = 2 * onDrawn

\* the dwells of the pixel in progress that are already behind pcD
DwellsBehind ==
    IF pcD \in {"colOn", "rowOn", "dwell1"} THEN 0
    ELSE IF pcD \in {"colOff", "rowOff", "dwell2"} THEN 1
    ELSE 2

\* C17: the pixels of one draw call are handled one after the other: the pixel
\* in progress changes, and the next pixel's first write happens, only after
\* the second dwell of the one before; every pixel that passes the bounds
\* check, On or Off, costs exactly two dwells; a pixel outside costs none and
\* writes no line.
SerializedFlashes ==
    /\ [](/\ pcD \in {"fetch", "idle"} => dwells = 2 * inDrawn
          /\ pcD \in {"colOn", "rowOn", "dwell1", "colOff", "rowOff", "dwell2"} =>
                 /\ inDrawn >= 1
                 /\ dwells = 2 * (inDrawn - 1) + DwellsBehind
                 /\ dwellsPre = 2 * (inDrawn - 1)
          /\ (cur.c # "None" /\ ~InBounds(cur)) =>
                 /\ dwells = dwellsPre
                 /\ rows = pre.rows /\ cols = pre.cols)
    /\ [][/\ cur' # cur => (pcD = "fetch" \/ pcD = "idle")
          /\ (pcD' = "colOn" /\ pcD # "colOn") => pcD = "fetch"
          /\ (rows' # rows \/ cols' # cols) =>
                 pcD \in {"colOn", "rowOn", "colOff", "rowOff"}]_vars

C17_Witness ==
    /\ pcD = "idle" /\ fetched = 2 /\ inDrawn = 1 /\ onDrawn = 0 /\ dwells = 2
    /\ cur = [x |-> 8, y |-> 3, c |-> "On"]

\* C18: the refresh does not depend on ticks.  Once the matrix is constructed
\* the process stays alive, try_recv is enabled whether or not a tick is
\* queued, every iteration that has polled the channel goes on to redraw and
\* every redraw is followed by the next poll, so redraws happen again and again
\* also after the Ticker's last tick; and a send whose receiver is alive is
\* enabled wherever the Animator is (below the queue bound of the model).
RefreshDecoupled ==
    /\ [](display = "some" =>
              /\ Running /\ rxAlive
              /\ pcA \in {"recv", "draw"}
              /\ pcA = "recv" => ENABLED A_Recv
              /\ pcA = "draw" => ENABLED A_Draw
              /\ (pcT = "send" /\ sent < MaxFairTicks /\ Len(chan) < MaxPending) =>
                     ENABLED T_SendOk(MaxFairTicks))
    /\ (display = "some" /\ pcA = "recv") ~> (pcA = "draw")
    /\ (display = "some" /\ pcA = "draw") ~> (pcA = "recv")

C18_Witness ==
    /\ display = "some" /\ pcA = "recv" /\ frames = 2
    /\ sent = MaxFairTicks /\ pcT = "send" /\ chan = << >>
    /\ pendingBefore = 0 /\ drained = 0 /\ submitted = prevSubmitted

\* C19: no frame is skipped: one loop iteration removes at most one tick from
\* the channel, however many are queued when it begins, so the stored offset
\* at a redraw is the stored offset of the redraw before it, or that plus one
\* modulo 256.
NoFrameSkipping ==
    pcA = "draw" =>
        /\ drained <= 1
        /\ Len(chan) >= pendingBefore - 1
        /\ offset_x \in {offsetBefore, (offsetBefore + 1) % U8Mod}
        /\ pendingBefore >= 2 => chan # << >>

C19_Witness ==
    /\ pcA = "draw" /\ pendingBefore = MaxPending /\ Len(chan) = MaxPending - 1
    /\ offsetBefore = U8Mod - 1 /\ offset_x = 0

====
